---- MODULE Spec2Model ----
(***************************************************************************)
(* Model of Code/main.py: the miRNA pipeline                               *)
(*   load_data  ->  calculate_average_and_variance_mirna_expression        *)
(*              ->  analysis.to_csv("miRNA_output.txt")                    *)
(* The directory tree, the files' contents and the values psutil returns   *)
(* are the environment; everything else is translated from main.py and     *)
(* from the library calls it makes (os.walk, pandas.read_csv, pandas.concat,*)
(* Series.unique / mean / var / std).                                      *)
(***************************************************************************)
EXTENDS Integers, Sequences, FiniteSets, TLC

\* ---------------------------------------------------------------- bounds
\* Directories of the tree are 0 .. NumDirs-1; 0 is base_path.
NumDirs == 4
\* Files in the whole tree, for the trees drawn file by file.
MaxFiles == 2
\* Rows of the unified table, for the tables drawn row by row.
MaxRows == 3

\* ------------------------------------------------------------ cell values
\* A cell of the value column after read_csv: a float, a missing value (NaN),
\* or a Python str (the column of a file that holds any non-numeric text is
\* read with dtype object and keeps every entry of that file as text; "txt"
\* is such a text that spells the number n, "abc" one that spells none).
Num(n) == [kind |-> "num", n |-> n]
NaN == [kind |-> "nan", n |-> 0]
Abc == [kind |-> "abc", n |-> 0]
Txt(n) == [kind |-> "txt", n |-> n]

\* A missing miRNA_ID (read as NaN, which compares unequal to everything).
KeyNaN == "<NaN>"

Row(k, v) == [key |-> k, val |-> v]

\* What a file holds on disk: bytes that read_csv cannot decode / tokenize,
\* or a header line followed by rows.
Bad == [ok |-> FALSE, rows |-> <<>>]
Table(rows) == [ok |-> TRUE, rows |-> rows]

File(name, content) == [name |-> name, content |-> content]

\* ------------------------------------------------------ the directory tree
Dirs == 0 .. (NumDirs - 1)

\* The subdirectories of d, in the order os.walk descends into them.
Children(d) == SelectSeq(<<2 * d + 1, 2 * d + 2>>, LAMBDA c : c \in Dirs)

FileNames == {"annotations.txt", "MANIFEST.txt", "a.tsv", "b.tsv"}
Keys == {"X", "Y"}

\* On-disk contents a file of a given name is drawn from.
ContentsOf(name) ==
    CASE name = "a.tsv" -> {Bad, Table(<<Row("X", Num(10)), Row("Y", Num(20))>>)}
      [] name = "b.tsv" -> {Bad, Table(<<Row("X", Num(30))>>)}
      [] OTHER -> {Bad, Table(<<Row("Z", Num(99))>>)}

EmptyTree == [d \in Dirs |-> <<>>]

NamesIn(files) == {files[i].name : i \in 1 .. Len(files)}

\* files with f inserted after its first i entries
InsertAt(files, i, f) ==
    SubSeq(files, 1, i) \o <<f>> \o SubSeq(files, i + 1, Len(files))

\* The trees made from t by adding one file: in any directory, under any name
\* the directory does not hold yet, at any position of its listing.
AddFile(t) ==
    { [t EXCEPT ![y[1]] = InsertAt(t[y[1]], y[2], File(y[3], y[4]))] :
        y \in { z \in Dirs \X (0 .. MaxFiles) \X FileNames \X
                      UNION {ContentsOf(nm) : nm \in FileNames} :
                  /\ z[2] <= Len(t[z[1]])
                  /\ z[3] \notin NamesIn(t[z[1]])
                  /\ z[4] \in ContentsOf(z[3]) } }

\* Every tree of at most n files.
RECURSIVE Trees(_)
Trees(n) ==
    IF n = 0 THEN {EmptyTree}
    ELSE LET T == Trees(n - 1) IN T \cup UNION {AddFile(t) : t \in T}

\* The cells and rows the row-by-row tables are drawn from.
Cells == {Num(1), Num(2), Num(3), NaN, Abc}
RowAlphabet == {Row(k, v) : k \in Keys, v \in Cells} \cup {Row(KeyNaN, Num(1))}

RECURSIVE RowSeqs(_)
RowSeqs(n) ==
    IF n = 0 THEN {<<>>}
    ELSE LET S == RowSeqs(n - 1)
         IN  S \cup {Append(s, r) : s \in {q \in S : Len(q) = n - 1}, r \in RowAlphabet}

\* The download layout: base_path itself holds no files, one folder holds a
\* data file next to an annotations.txt of garbage, another a second data file.
\* rows[1..cut] are in a.tsv and the rest in b.tsv.
Layout(rows, cut) ==
    [d \in Dirs |->
        IF d = 1 THEN <<File("annotations.txt", Bad),
                        File("a.tsv", Table(SubSeq(rows, 1, cut)))>>
        ELSE IF d = 2 THEN <<File("b.tsv", Table(SubSeq(rows, cut + 1, Len(rows))))>>
        ELSE <<>>]

\* A table is split after its first half, or a.tsv holds all of it and b.tsv
\* only its header line.
Cuts(rows) == {(Len(rows) + 1) \div 2, Len(rows)}

FileSystems ==
    Trees(MaxFiles) \cup
    {Layout(z[1], z[2]) : z \in {y \in RowSeqs(MaxRows) \X (0 .. MaxRows) :
                                      y[2] \in Cuts(y[1])}}

\* ------------------------------------------------------------------ state
VARIABLES
    fs,                \* the tree under base_path: directory -> its listing
    pc,                \* where the script is
    error,             \* the exception that ended the script, "" if none
    walkStack,         \* os.walk: the directories still to yield
    root,              \* load_data: the directory being listed
    todo,              \* load_data: the files of root not yet looked at
    dataframes,        \* load_data: the parsed tables, in read order
    miRNA_data,        \* the unified table load_data returned
    samples,           \* the psutil snapshots taken so far
    todoKeys,          \* aggregator: the unique keys not yet processed
    mirna_statistics,  \* aggregator: the rows appended so far
    usage,             \* aggregator: the printed delta, <<>> until printed
    analysis,          \* the table the aggregator returned
    outfile,           \* miRNA_output.txt as written by this run
    trace              \* history: the calls made, in order

vars == <<fs, pc, error, walkStack, root, todo, dataframes, miRNA_data, samples,
          todoKeys, mirna_statistics, usage, analysis, outfile, trace>>

loaderVars == <<walkStack, root, todo, dataframes>>
aggVars == <<samples, todoKeys, mirna_statistics, usage, analysis>>

Ev(e) == [ev |-> e, dir |-> -1, name |-> ""]
ReadEv(d, name) == [ev |-> "read_csv", dir |-> d, name |-> name]

NotWritten == [written |-> FALSE, table |-> <<>>]

Init ==
    /\ fs \in FileSystems
    /\ pc = "start"
    /\ error = ""
    /\ walkStack = <<>>
    /\ root = 0
    /\ todo = <<>>
    /\ dataframes = <<>>
    /\ miRNA_data = <<>>
    /\ samples = <<>>
    /\ todoKeys = <<>>
    /\ mirna_statistics = <<>>
    /\ usage = <<>>
    /\ analysis = <<>>
    /\ outfile = NotWritten
    /\ trace = <<>>

\* --------------------------------------------------------------- load_data
\* pandas.read_csv(sep="\t") on a well-formed file: one row per line after the
\* header. A value column whose entries all parse as numbers (an empty field
\* is a missing value) is float64; one non-numeric text makes the file's column
\* dtype object, and then every non-missing entry of that file stays a str.
ReadCsv(content) ==
    LET rows == content.rows
        isObject == \E i \in 1 .. Len(rows) : rows[i].val.kind = "abc"
    IN  [i \in 1 .. Len(rows) |->
            IF isObject /\ rows[i].val.kind = "num"
            THEN Row(rows[i].key, Txt(rows[i].val.n))
            ELSE rows[i]]

\* pandas.concat(dataframes): the frames' rows stacked in list order.
RECURSIVE Concat(_)
Concat(frames) ==
    IF frames = <<>> THEN <<>> ELSE Head(frames) \o Concat(Tail(frames))

\* Raising an exception at module level ends the script.
Raise(exc) ==
    /\ pc' = "failed"
    /\ error' = exc

\* miRNA_data = load_data("./miRNA Files"): dataframes = [], os.walk starts at
\* base_path.
StartLoad ==
    /\ pc = "start"
    /\ pc' = "walk"
    /\ walkStack' = <<0>>
    /\ dataframes' = <<>>
    /\ trace' = Append(trace, Ev("load_data"))
    /\ UNCHANGED <<fs, error, root, todo, miRNA_data, aggVars, outfile>>

\* os.walk yields the next directory top-down and will descend into its
\* subdirectories whatever the loop body does with the yielded triple.
WalkAfter(d) == Children(d) \o Tail(walkStack)

\* Mutant of SkipEmptyDir: "break" where the code says "continue".
SkipEmptyDirBreak ==
    /\ pc = "walk"
    /\ walkStack # <<>>
    /\ fs[Head(walkStack)] = <<>>
    /\ walkStack' = <<>>
    /\ UNCHANGED <<fs, pc, error, root, todo, dataframes, miRNA_data, aggVars,
                   outfile, trace>>

\* "if not files: continue"
SkipEmptyDir ==
    /\ pc = "walk"
    /\ walkStack # <<>>
    /\ fs[Head(walkStack)] = <<>>
    /\ walkStack' = WalkAfter(Head(walkStack))
    /\ UNCHANGED <<fs, pc, error, root, todo, dataframes, miRNA_data, aggVars,
                   outfile, trace>>

\* "for file in files:" of a directory that lists at least one file
EnterDir ==
    /\ pc = "walk"
    /\ walkStack # <<>>
    /\ fs[Head(walkStack)] # <<>>
    /\ root' = Head(walkStack)
    /\ todo' = fs[Head(walkStack)]
    /\ walkStack' = WalkAfter(Head(walkStack))
    /\ pc' = "files"
    /\ UNCHANGED <<fs, error, dataframes, miRNA_data, aggVars, outfile, trace>>

\* The inner loop goes to the next file, or back to os.walk after the last.
NextFile ==
    /\ todo' = Tail(todo)
    /\ pc' = IF Tail(todo) = <<>> THEN "walk" ELSE "files"

\* if file == "annotations.txt": continue
IsAnnotations(file) == file = "annotations.txt"

SkipAnnotations ==
    /\ pc = "files"
    /\ todo # <<>>
    /\ IsAnnotations(Head(todo).name)
    /\ NextFile
    /\ UNCHANGED <<fs, error, walkStack, root, dataframes, miRNA_data, aggVars,
                   outfile, trace>>

\* Mutant of IsManifest: the name spelled in lower case.
IsManifestLowerCase(file) == file = "manifest.txt"

\* if file == "MANIFEST.txt": continue
IsManifest(file) == file = "MANIFEST.txt"

SkipManifest ==
    /\ pc = "files"
    /\ todo # <<>>
    /\ ~IsAnnotations(Head(todo).name)
    /\ IsManifest(Head(todo).name)
    /\ NextFile
    /\ UNCHANGED <<fs, error, walkStack, root, dataframes, miRNA_data, aggVars,
                   outfile, trace>>

\* data = pd.read_csv(filepath, ...); dataframes.append(data)
ReadFile ==
    /\ pc = "files"
    /\ todo # <<>>
    /\ ~IsAnnotations(Head(todo).name)
    /\ ~IsManifest(Head(todo).name)
    /\ Head(todo).content.ok
    /\ dataframes' = Append(dataframes, ReadCsv(Head(todo).content))
    /\ trace' = Append(trace, ReadEv(root, Head(todo).name))
    /\ NextFile
    /\ UNCHANGED <<fs, error, walkStack, root, miRNA_data, aggVars, outfile>>

\* Mutant of ReadFileFails: the error caught and the file skipped.
ReadFileFailsSkip ==
    /\ pc = "files"
    /\ todo # <<>>
    /\ ~IsAnnotations(Head(todo).name)
    /\ ~IsManifest(Head(todo).name)
    /\ ~Head(todo).content.ok
    /\ trace' = Append(trace, ReadEv(root, Head(todo).name))
    /\ NextFile
    /\ UNCHANGED <<fs, error, walkStack, root, dataframes, miRNA_data, aggVars,
                   outfile>>

\* pd.read_csv raises (UnicodeDecodeError, ParserError, EmptyDataError); nothing
\* in load_data or the script catches it.
ReadFileFails ==
    /\ pc = "files"
    /\ todo # <<>>
    /\ ~IsAnnotations(Head(todo).name)
    /\ ~IsManifest(Head(todo).name)
    /\ ~Head(todo).content.ok
    /\ trace' = Append(trace, ReadEv(root, Head(todo).name))
    /\ Raise("ParserError")
    /\ UNCHANGED <<fs, walkStack, root, todo, dataframes, miRNA_data, aggVars,
                   outfile>>

\* Mutant of NoDataframes: the emptiness check left out.
NoDataframesUnchecked(frames) == FALSE

\* if not dataframes: raise ValueError(...)
NoDataframes(frames) == frames = <<>>

RaiseNoData ==
    /\ pc = "walk"
    /\ walkStack = <<>>
    /\ NoDataframes(dataframes)
    /\ Raise("ValueError")
    /\ UNCHANGED <<fs, loaderVars, miRNA_data, aggVars, outfile, trace>>

\* dataset = pd.concat(dataframes); return dataset; print(miRNA_data)
ReturnDataset ==
    /\ pc = "walk"
    /\ walkStack = <<>>
    /\ ~NoDataframes(dataframes)
    /\ miRNA_data' = Concat(dataframes)
    /\ pc' = "loaded"
    /\ UNCHANGED <<fs, error, loaderVars, aggVars, outfile, trace>>

\* ------------------------- calculate_average_and_variance_mirna_expression
\* Statistics are exact fractions num/den, or not-a-number; a standard
\* deviation is the square root of the fraction it carries.
Frac(n, d) == [kind |-> "num", num |-> n, den |-> d]
StatNaN == [kind |-> "nan", num |-> 0, den |-> 1]
SqrtOf(v) == [kind |-> "sqrt", num |-> v.num, den |-> v.den]

\* The snapshots psutil may return: cpu_percent(interval=None),
\* virtual_memory().percent, disk_usage('/').percent.
Snapshots ==
    { [cpu |-> 0, ram |-> 40, disk |-> 70],
      [cpu |-> 25, ram |-> 38, disk |-> 71] }

\* cpu_usage = cpu_after - cpu_before, and so for ram and disk
Delta(b, a) ==
    [cpu |-> a.cpu - b.cpu, ram |-> a.ram - b.ram, disk |-> a.disk - b.disk]

\* a == b on miRNA_ID values: NaN equals nothing, itself included
KeyEq(a, b) == a # KeyNaN /\ b # KeyNaN /\ a = b

\* Mutant of Unique: only a repeat of the directly preceding key is dropped.
RECURSIVE UniqueAdjacentFrom(_, _)
UniqueAdjacentFrom(seen, rows) ==
    IF rows = <<>> THEN seen
    ELSE IF seen # <<>> /\ seen[Len(seen)] = Head(rows).key
         THEN UniqueAdjacentFrom(seen, Tail(rows))
         ELSE UniqueAdjacentFrom(Append(seen, Head(rows).key), Tail(rows))

UniqueAdjacent(dataset) == UniqueAdjacentFrom(<<>>, dataset)

\* dataset["miRNA_ID"].unique(): the distinct values in order of first
\* appearance (a hash table scanned top to bottom; all NaN are one value).
RECURSIVE UniqueFrom(_, _)
UniqueFrom(seen, rows) ==
    IF rows = <<>> THEN seen
    ELSE IF \E i \in 1 .. Len(seen) : seen[i] = Head(rows).key
         THEN UniqueFrom(seen, Tail(rows))
         ELSE UniqueFrom(Append(seen, Head(rows).key), Tail(rows))

Unique(dataset) == UniqueFrom(<<>>, dataset)

\* dataset[dataset["miRNA_ID"] == mirna_id]["reads_per_million_miRNA_mapped"]
Subset(dataset, mirna_id) ==
    LET sel == SelectSeq(dataset, LAMBDA r : KeyEq(r.key, mirna_id))
    IN  [i \in 1 .. Len(sel) |-> sel[i].val]

\* The reductions skip missing values (skipna=True).
Present(vals) == SelectSeq(vals, LAMBDA c : c.kind = "num")

RECURSIVE SeqSum(_)
SeqSum(ns) == IF ns = <<>> THEN 0 ELSE Head(ns) + SeqSum(Tail(ns))

Total(vals) == SeqSum([i \in 1 .. Len(Present(vals)) |-> Present(vals)[i].n])

\* Mutant of HasText: text coerced to a missing value (errors="coerce").
HasTextCoerced(vals) == FALSE

\* A str among the values: summing them raises TypeError (float + str, or
\* "Could not convert string ... to numeric").
HasText(vals) == \E i \in 1 .. Len(vals) : vals[i].kind \in {"abc", "txt"}

\* Series.mean(): sum / count of the non-missing values, NaN when there are none
Mean(vals) ==
    LET count == Len(Present(vals))
    IN  IF count = 0 THEN StatNaN ELSE Frac(Total(vals), count)

\* Series.var() and Series.std() use ddof=1
Ddof == 1

\* Mutant of Var: the population variance (ddof=0).
VarPopulation(vals) ==
    LET p == Present(vals)
        count == Len(p)
        S == Total(vals)
        sq == SeqSum([i \in 1 .. count |-> (S - count * p[i].n) * (S - count * p[i].n)])
    IN  IF count = 0 THEN StatNaN ELSE Frac(sq, count * count * count)

\* Series.var(): avg = sum / count; sum((avg - x)^2) / (count - ddof); NaN when
\* count <= ddof. With avg = S/c the sum of squares is sum((S - c*x)^2) / c^2.
Var(vals) ==
    LET p == Present(vals)
        count == Len(p)
        S == Total(vals)
        sq == SeqSum([i \in 1 .. count |-> (S - count * p[i].n) * (S - count * p[i].n)])
    IN  IF count <= Ddof THEN StatNaN
        ELSE Frac(sq, count * count * (count - Ddof))

\* Mutant of Std: an undefined deviation reported as zero (fillna(0)).
StdFillZero(vals) == IF Var(vals).kind = "nan" THEN SqrtOf(Frac(0, 1)) ELSE SqrtOf(Var(vals))

\* Series.std(): sqrt of var()
Std(vals) == IF Var(vals).kind = "nan" THEN StatNaN ELSE SqrtOf(Var(vals))

\* the dict appended for one mirna_id
StatsRow(dataset, mirna_id) ==
    LET mirna_subset == Subset(dataset, mirna_id)
    IN  [miRNA_ID |-> mirna_id,
         average_expression |-> Mean(mirna_subset),
         variance_expression |-> Var(mirna_subset),
         standard_deviation |-> Std(mirna_subset)]

\* The loop as a whole: the list of dicts built for dataset when no subset
\* holds a str.
Aggregate(dataset) ==
    [i \in 1 .. Len(Unique(dataset)) |-> StatsRow(dataset, Unique(dataset)[i])]

\* analysis = calculate_average_and_variance_mirna_expression(miRNA_data):
\* the three *_before readings, mirna_statistics = [], and the loop's iterable.
SampleBefore ==
    /\ pc = "loaded"
    /\ \E s \in Snapshots : samples' = Append(samples, s)
    /\ mirna_statistics' = <<>>
    /\ todoKeys' = Unique(miRNA_data)
    /\ pc' = "groups"
    /\ trace' = trace \o <<Ev("aggregate"), Ev("sample")>>
    /\ UNCHANGED <<fs, error, loaderVars, miRNA_data, usage, analysis, outfile>>

\* a psutil query raises (an OS-level failure); nothing catches it
SampleBeforeFails ==
    /\ pc = "loaded"
    /\ Raise("OSError")
    /\ trace' = Append(trace, Ev("aggregate"))
    /\ UNCHANGED <<fs, loaderVars, miRNA_data, aggVars, outfile>>

\* Mutant of GroupStep: the resources sampled inside the loop as well.
GroupStepSampling ==
    /\ pc = "groups"
    /\ todoKeys # <<>>
    /\ ~HasText(Subset(miRNA_data, Head(todoKeys)))
    /\ mirna_statistics' = Append(mirna_statistics, StatsRow(miRNA_data, Head(todoKeys)))
    /\ todoKeys' = Tail(todoKeys)
    /\ \E s \in Snapshots : samples' = Append(samples, s)
    /\ trace' = trace \o <<Ev("group"), Ev("sample")>>
    /\ UNCHANGED <<fs, pc, error, loaderVars, miRNA_data, usage, analysis, outfile>>

\* one iteration of "for mirna_id in dataset["miRNA_ID"].unique():"
GroupStep ==
    /\ pc = "groups"
    /\ todoKeys # <<>>
    /\ ~HasText(Subset(miRNA_data, Head(todoKeys)))
    /\ mirna_statistics' = Append(mirna_statistics, StatsRow(miRNA_data, Head(todoKeys)))
    /\ todoKeys' = Tail(todoKeys)
    /\ trace' = Append(trace, Ev("group"))
    /\ UNCHANGED <<fs, pc, error, loaderVars, miRNA_data, samples, usage, analysis,
                   outfile>>

\* .mean() of a subset that holds a str raises TypeError
GroupRaises ==
    /\ pc = "groups"
    /\ todoKeys # <<>>
    /\ HasText(Subset(miRNA_data, Head(todoKeys)))
    /\ Raise("TypeError")
    /\ trace' = Append(trace, Ev("group"))
    /\ UNCHANGED <<fs, loaderVars, miRNA_data, aggVars, outfile>>

\* after the loop: the three *_after readings, the deltas printed, and
\* return pd.DataFrame(mirna_statistics)
SampleAfter ==
    /\ pc = "groups"
    /\ todoKeys = <<>>
    /\ \E s \in Snapshots :
         /\ samples' = Append(samples, s)
         /\ usage' = <<Delta(samples[1], s)>>
    /\ analysis' = mirna_statistics
    /\ pc' = "aggregated"
    /\ trace' = Append(trace, Ev("sample"))
    /\ UNCHANGED <<fs, error, loaderVars, miRNA_data, todoKeys, mirna_statistics,
                   outfile>>

SampleAfterFails ==
    /\ pc = "groups"
    /\ todoKeys = <<>>
    /\ Raise("OSError")
    /\ UNCHANGED <<fs, loaderVars, miRNA_data, aggVars, outfile, trace>>

\* ------------------------------------------------------------- the script
\* DataFrame.to_csv(sep='\t', index=True): the rows, each led by its index
ToCsv(table) ==
    [i \in 1 .. Len(table) |-> [index |-> i - 1, row |-> table[i]]]

\* Mutant of WriteOutput: the file written in a "finally", after a failure too.
WriteOutputAlways ==
    /\ pc \in {"aggregated", "failed"}
    /\ outfile' = [written |-> TRUE, table |-> ToCsv(analysis)]
    /\ pc' = "done"
    /\ trace' = Append(trace, Ev("to_csv"))
    /\ UNCHANGED <<fs, error, loaderVars, miRNA_data, aggVars>>

\* analysis.to_csv("miRNA_output.txt", ...); print(analysis); the elapsed time
WriteOutput ==
    /\ pc = "aggregated"
    /\ outfile' = [written |-> TRUE, table |-> ToCsv(analysis)]
    /\ pc' = "done"
    /\ trace' = Append(trace, Ev("to_csv"))
    /\ UNCHANGED <<fs, error, loaderVars, miRNA_data, aggVars>>

Next ==
    \/ StartLoad
    \/ SkipEmptyDir
    \/ EnterDir
    \/ SkipAnnotations
    \/ SkipManifest
    \/ ReadFile
    \/ ReadFileFails
    \/ RaiseNoData
    \/ ReturnDataset
    \/ SampleBefore
    \/ SampleBeforeFails
    \/ GroupStep
    \/ GroupRaises
    \/ SampleAfter
    \/ SampleAfterFails
    \/ WriteOutput

Spec == Init /\ [][Next]_vars

\* =============================================================== properties
\* What the properties say about the tree, stated without the walk.
ReservedNames == {"annotations.txt", "MANIFEST.txt"}

\* the places <<d, i>> of the files that are no sidecar
DataFiles ==
    {p \in Dirs \X (1 .. MaxFiles + 2) :
        /\ p[2] <= Len(fs[p[1]])
        /\ fs[p[1]][p[2]].name \notin ReservedNames}

SidecarFiles ==
    {p \in Dirs \X (1 .. MaxFiles + 2) :
        /\ p[2] <= Len(fs[p[1]])
        /\ fs[p[1]][p[2]].name \in ReservedNames}

FileAt(p) == fs[p[1]][p[2]]

RECURSIVE RowTotal(_)
RowTotal(places) ==
    IF places = {} THEN 0
    ELSE LET p == CHOOSE q \in places : TRUE
         IN  Len(FileAt(p).content.rows) + RowTotal(places \ {p})

\* how often read_csv was called on the file name of directory d
ReadCount(d, name) ==
    Cardinality({i \in 1 .. Len(trace) : trace[i] = ReadEv(d, name)})

LoadReturned ==
    \/ pc \in {"loaded", "groups", "aggregated", "done"}
    \/ pc = "failed" /\ error \in {"OSError", "TypeError"}

LoadEnded == pc \notin {"start", "walk", "files"}

AggregateReturned == pc \in {"aggregated", "done"}

\* the position of the first row of the unified table that has key k
FirstRow(k) ==
    CHOOSE j \in 1 .. Len(miRNA_data) :
        /\ miRNA_data[j].key = k
        /\ \A m \in 1 .. (j - 1) : miRNA_data[m].key # k

\* C1: when the aggregator returns, its table has exactly one row per distinct
\* miRNA_ID value of the unified table (none missing, none duplicated, none
\* made up), and the rows are in the order in which the keys first occur.
C1_OneRowPerKeyFirstSeen ==
    AggregateReturned =>
        /\ \A j \in 1 .. Len(miRNA_data) :
             \E i \in 1 .. Len(analysis) : analysis[i].miRNA_ID = miRNA_data[j].key
        /\ \A i \in 1 .. Len(analysis) :
             \E j \in 1 .. Len(miRNA_data) : miRNA_data[j].key = analysis[i].miRNA_ID
        /\ \A i, j \in 1 .. Len(analysis) :
             i < j => /\ analysis[i].miRNA_ID # analysis[j].miRNA_ID
                      /\ FirstRow(analysis[i].miRNA_ID) < FirstRow(analysis[j].miRNA_ID)

\* C1 witness: the table reads X, Y, X, the two X rows coming from different
\* files, and the summary has X before Y.
C1_Witness ==
    /\ pc = "done"
    /\ Len(dataframes) = 2
    /\ Len(miRNA_data) = 3
    /\ miRNA_data[1].key = "X"
    /\ miRNA_data[2].key = "Y"
    /\ miRNA_data[3].key = "X"
    /\ Len(dataframes[1]) = 2
    /\ Len(analysis) = 2
    /\ analysis[1].miRNA_ID = "X"
    /\ analysis[2].miRNA_ID = "Y"

\* C2: when load_data returns, the table has as many rows as all non-sidecar
\* files of the tree together, and read_csv was called exactly once on each
\* of them, wherever in the tree the file is.
C2_RowCountAndReadOnce ==
    LoadReturned =>
        /\ Len(miRNA_data) = RowTotal(DataFiles)
        /\ \A p \in DataFiles : ReadCount(p[1], FileAt(p).name) = 1
        /\ Len(dataframes) = Cardinality(DataFiles)

\* C2 witness: base_path and its first folder hold no files, the two data
\* files are below them.
C2_Witness ==
    /\ pc = "loaded"
    /\ fs[0] = <<>>
    /\ fs[1] = <<>>
    /\ fs[3] # <<>>
    /\ Cardinality(DataFiles) = 2
    /\ Len(miRNA_data) = 3

\* C3: read_csv is never called on a sidecar, a parse error always comes from
\* a data file, and every row of the returned table is a row of a data file.
C3_SidecarsNeverParsed ==
    /\ \A p \in SidecarFiles : ReadCount(p[1], FileAt(p).name) = 0
    /\ error = "ParserError" =>
         /\ trace # <<>>
         /\ \E p \in DataFiles :
              /\ ~FileAt(p).content.ok
              /\ trace[Len(trace)] = ReadEv(p[1], FileAt(p).name)
    /\ LoadReturned =>
         \A i \in 1 .. Len(miRNA_data) :
            \E p \in DataFiles : \E j \in 1 .. Len(FileAt(p).content.rows) :
               /\ FileAt(p).content.rows[j].key = miRNA_data[i].key
               /\ FileAt(p).content.rows[j].val.n = miRNA_data[i].val.n

\* C3 witness: a run that finished although an undecodable annotations.txt
\* lies two levels below base_path.
C3_Witness ==
    /\ pc = "done"
    /\ \E i \in 1 .. Len(fs[3]) :
         /\ fs[3][i].name = "annotations.txt"
         /\ ~fs[3][i].content.ok

\* C4: load_data returns only after parsing at least one file; on a tree
\* without data files it ends with the ValueError and returns nothing.
C4_NoDataRaises ==
    /\ LoadReturned => dataframes # <<>> /\ DataFiles # {}
    /\ (LoadEnded /\ DataFiles = {}) =>
         /\ pc = "failed"
         /\ error = "ValueError"
         /\ miRNA_data = <<>>
         /\ ~outfile.written

\* C4 witness: the ValueError on a tree that holds sidecars only.
C4_Witness ==
    /\ pc = "failed"
    /\ error = "ValueError"
    /\ SidecarFiles # {}
    /\ DataFiles = {}

\* the rows of the unified table that carry key k, by position
GroupRows(k) == {j \in 1 .. Len(miRNA_data) : miRNA_data[j].key = k}

AllNumeric(G) == \A j \in G : miRNA_data[j].val.kind = "num"

RECURSIVE ValueSum(_)
ValueSum(G) ==
    IF G = {} THEN 0
    ELSE LET j == CHOOSE m \in G : TRUE
         IN  miRNA_data[j].val.n + ValueSum(G \ {j})

\* sum over G of (n*x - S)^2, that is n^2 times the squared deviations from S/n
RECURSIVE ScaledSquares(_, _, _)
ScaledSquares(G, n, S) ==
    IF G = {} THEN 0
    ELSE LET j == CHOOSE m \in G : TRUE
             dev == n * miRNA_data[j].val.n - S
         IN  dev * dev + ScaledSquares(G \ {j}, n, S)

ValuesOf(G) == {miRNA_data[j].val.n : j \in G}

\* C5: every row computed for a key whose n >= 2 rows are all numeric carries
\* the arithmetic mean of exactly those rows and their sum of squared
\* deviations divided by n-1; [1,2,3] gives 2 and 1, [10,30] gives 20 and 200.
C5_MeanAndSampleVariance ==
    \A i \in 1 .. Len(mirna_statistics) :
        LET r == mirna_statistics[i]
            G == GroupRows(r.miRNA_ID)
            n == Cardinality(G)
            S == ValueSum(G)
            mean == r.average_expression
            var == r.variance_expression
        IN  (r.miRNA_ID # KeyNaN /\ n >= 2 /\ AllNumeric(G)) =>
              /\ mean.kind = "num"
              /\ mean.den > 0
              /\ mean.num * n = S * mean.den
              /\ var.kind = "num"
              /\ var.den > 0
              /\ var.num * (n * n * (n - 1)) = ScaledSquares(G, n, S) * var.den
              /\ (n = 3 /\ ValuesOf(G) = {1, 2, 3}) =>
                    mean.num = 2 * mean.den /\ var.num = var.den
              /\ (n = 2 /\ ValuesOf(G) = {10, 30}) =>
                    mean.num = 20 * mean.den /\ var.num = 200 * var.den

\* C5 witness: the run is over and key X had the values 1, 2, 3, from two files.
C5_Witness ==
    /\ pc = "done"
    /\ Len(dataframes[1]) = 2
    /\ Cardinality(GroupRows("X")) = 3
    /\ AllNumeric(GroupRows("X"))
    /\ ValuesOf(GroupRows("X")) = {1, 2, 3}

\* the unified table without the rows of key k
TableWithout(k) == SelectSeq(miRNA_data, LAMBDA r : r.key # k)

\* C6: a key with one numeric row gets mean = that value and NaN variance and
\* deviation, it never makes the aggregator raise, and the other keys' rows
\* are what the aggregator returns for the table without that row.
C6_SingletonGroup ==
    /\ \A i \in 1 .. Len(mirna_statistics) :
          LET r == mirna_statistics[i]
              G == GroupRows(r.miRNA_ID)
          IN  (r.miRNA_ID # KeyNaN /\ Cardinality(G) = 1 /\ AllNumeric(G)) =>
                /\ r.average_expression.kind = "num"
                /\ r.average_expression.num = ValueSum(G) * r.average_expression.den
                /\ r.variance_expression = StatNaN
                /\ r.standard_deviation = StatNaN
    /\ (error = "TypeError") =>
          LET G == GroupRows(Head(todoKeys))
          IN  ~(Cardinality(G) = 1 /\ AllNumeric(G))
    /\ AggregateReturned =>
          \A k \in Keys :
             (Cardinality(GroupRows(k)) = 1 /\ AllNumeric(GroupRows(k))) =>
                SelectSeq(analysis, LAMBDA r : r.miRNA_ID # k) = Aggregate(TableWithout(k))

\* C6 witness: the run is over, key Y had a single row and key X two.
C6_Witness ==
    /\ pc = "done"
    /\ Cardinality(GroupRows("Y")) = 1
    /\ AllNumeric(GroupRows("Y"))
    /\ Cardinality(GroupRows("X")) = 2
    /\ AllNumeric(GroupRows("X"))
    /\ Len(analysis) = 2

BadDataFile == \E p \in DataFiles : ~FileAt(p).content.ok

\* C7: with an undecodable data file anywhere in the tree load_data never
\* returns: the run ends in the parse error, with no table, no summary and no
\* output, and takes no further step.
C7_ParseErrorAbortsLoad ==
    /\ BadDataFile =>
         /\ ~LoadReturned
         /\ error \in {"", "ParserError"}
         /\ miRNA_data = <<>>
    /\ error = "ParserError" =>
         /\ BadDataFile
         /\ pc = "failed"
         /\ miRNA_data = <<>>
         /\ analysis = <<>>
         /\ ~outfile.written
         /\ ~ENABLED Next

\* C7 witness: the parse error after another file had been parsed.
C7_Witness ==
    /\ error = "ParserError"
    /\ dataframes # <<>>

\* a row with a key whose value is a text that spells no number
TextEntry(j) == miRNA_data[j].key # KeyNaN /\ miRNA_data[j].val.kind = "abc"

HasTextEntry == \E j \in 1 .. Len(miRNA_data) : TextEntry(j)

\* a key none of whose rows holds a str (a missing key has no rows: it equals
\* no row's key)
NumericOnly(k) ==
    k = KeyNaN \/ \A j \in GroupRows(k) : miRNA_data[j].val.kind \in {"num", "nan"}

\* the table without the rows that hold a text entry
TableWithoutText == SelectSeq(miRNA_data, LAMBDA r : r.val.kind # "abc")

EventsAt(e) == {i \in 1 .. Len(trace) : trace[i].ev = e}

DistinctKeys == {miRNA_data[j].key : j \in 1 .. Len(miRNA_data)}

\* C9: at most two snapshots are taken, the first before any key is
\* processed and the second after all of them; a run of the aggregator that
\* returns has taken exactly two, reports after - before, and returns the
\* table that the unified table alone determines.
C9_TwoSnapshotsAroundLoop ==
    /\ Len(samples) <= 2
    /\ Cardinality(EventsAt("sample")) = Len(samples)
    /\ \A g \in EventsAt("group") : \E s \in EventsAt("sample") : s < g
    /\ \A s1, s2 \in EventsAt("sample") : \A g \in EventsAt("group") :
          s1 < s2 => (s1 < g /\ g < s2)
    /\ Len(samples) = 2 => AggregateReturned
    /\ AggregateReturned =>
          /\ Len(samples) = 2
          /\ Cardinality(EventsAt("group")) = Cardinality(DistinctKeys)
          /\ usage = << [cpu |-> samples[2].cpu - samples[1].cpu,
                         ram |-> samples[2].ram - samples[1].ram,
                         disk |-> samples[2].disk - samples[1].disk] >>
          /\ analysis = Aggregate(miRNA_data)
    /\ ~AggregateReturned => usage = <<>>

\* C9 witness: two keys were processed between two different snapshots.
C9_Witness ==
    /\ pc = "aggregated"
    /\ Len(analysis) = 2
    /\ samples[1] # samples[2]

DriverCalls ==
    LET calls == SelectSeq(trace, LAMBDA e : e.ev \in {"load_data", "aggregate", "to_csv"})
    IN  [i \in 1 .. Len(calls) |-> calls[i].ev]

\* C10: the script calls load_data, the aggregator and to_csv in this order
\* and each at most once; the output exists only at the end of a run in which
\* both calls returned, and a failed run has written nothing and stops.
C10_WriteOnlyAfterSuccess ==
    /\ DriverCalls = SubSeq(<<"load_data", "aggregate", "to_csv">>, 1, Len(DriverCalls))
    /\ outfile.written <=> pc = "done"
    /\ outfile.written =>
          /\ error = ""
          /\ DriverCalls = <<"load_data", "aggregate", "to_csv">>
          /\ Len(samples) = 2
          /\ Len(outfile.table) = Len(analysis)
          /\ \A i \in 1 .. Len(analysis) :
                outfile.table[i].row = analysis[i] /\ outfile.table[i].index = i - 1
    /\ pc = "failed" <=> error # ""
    /\ pc = "failed" => ~ENABLED Next

\* C10 witness: the output written at the end of a run with two summary rows.
C10_Witness ==
    /\ outfile.written
    /\ Len(outfile.table) = 2
    /\ trace[Len(trace)] = Ev("to_csv")

====
